---- MODULE Spec2Model ----
(***************************************************************************)
(* Scoring engine, prediction engine and interactive session of the        *)
(* clinical decision support framework (scoring_engine.py,                 *)
(* prediction_engine.py, decision_tree.py, data_loader.py).                *)
(*                                                                         *)
(* Numbers.  Prevalence and specificity are whole percents.  A score is    *)
(* kept in units of 1/ScoreScale (exact arithmetic; the rounding of        *)
(* Python floats is not modelled).  A confidence is a reduced fraction     *)
(* [num, den].  An Optional is a sequence of length 0 (None) or 1.         *)
(* A dict is the sequence of its entries in insertion order.               *)
(***************************************************************************)
EXTENDS Integers, Sequences, FiniteSets, TLC

VARIABLES
    module_profiles,   \* DataLoader.module_profiles : module_id -> ModuleProfile
    gene_mapping,      \* DataLoader.gene_mapping    : gene -> GeneInfo
    observed,          \* SessionState.observed
    excluded,          \* SessionState.excluded
    unknown,           \* SessionState.unknown
    history,           \* SessionState.history
    cached_modules,    \* InteractiveSession._cached_modules
    cache_valid,       \* InteractiveSession._cache_valid
    rank_calls,        \* calls of rank_modules by _update_cache since the last answer/reset
    query_observed,    \* the observed set a caller passes to the stateless engines
    query_excluded,    \* the excluded set a caller passes to the stateless engines
    last               \* the last call made by the caller: operation, arguments, return value

vars == <<module_profiles, gene_mapping, observed, excluded, unknown, history,
          cached_modules, cache_valid, rank_calls, query_observed, query_excluded, last>>

dataVars == <<module_profiles, gene_mapping>>
sessionVars == <<observed, excluded, unknown, history, cached_modules, cache_valid,
                 rank_calls>>
queryVars == <<query_observed, query_excluded>>

\* ------------------------------------------------------------------ bounds

\* Largest number of module sheets in a reference data set.
MaxModules == 2

\* Largest number of answers recorded between two resets.
MaxHistory == 2

\* ------------------------------------------------------- scoring configuration

\* ScoringConfig defaults, in the units of the model.
prevalence_weight == 1
specificity_weight == 1
\* exclusion_penalty = 0.5 = ExclusionPenaltyNum / ExclusionPenaltyDen
ExclusionPenaltyNum == 1
ExclusionPenaltyDen == 2
\* One score unit is 1/ScoreScale: 100 for the percent normalisation times
\* ExclusionPenaltyDen, so that a penalty is a whole number of units.
ScoreScale == 100 * ExclusionPenaltyDen
\* stability_bonus = 0.1, in score units.
stability_bonus == ScoreScale \div 10

\* ------------------------------------------------------------ generic helpers

None == <<>>
Some(x) == <<x>>

Max(a, b) == IF a >= b THEN a ELSE b
Min(a, b) == IF a <= b THEN a ELSE b
Abs(a) == IF a >= 0 THEN a ELSE -a

RECURSIVE Gcd(_, _)
Gcd(a, b) == IF b = 0 THEN a ELSE Gcd(b, a % b)

\* The fraction n/d (d > 0) in lowest terms.
Frac(n, d) ==
    LET g == Gcd(Abs(n), d)
    IN  [num |-> n \div g, den |-> d \div g]

FracZero == [num |-> 0, den |-> 1]
FracOne == [num |-> 1, den |-> 1]
FracLe(x, y) == x.num * y.den <= y.num * x.den
FracMax(x, y) == IF FracLe(y, x) THEN x ELSE y
FracMin(x, y) == IF FracLe(x, y) THEN x ELSE y
FracSub(x, y) == Frac(x.num * y.den - y.num * x.den, x.den * y.den)
FracMul(x, y) == Frac(x.num * y.num, x.den * y.den)

RECURSIVE SumSeq(_)
SumSeq(s) == IF s = <<>> THEN 0 ELSE Head(s) + SumSeq(Tail(s))

Range(s) == {s[i] : i \in 1..Len(s)}

\* The order in which a Python set is iterated: some fixed enumeration of
\* its elements.
RECURSIVE IterOrder(_)
IterOrder(S) ==
    IF S = {} THEN <<>>
    ELSE LET x == CHOOSE y \in S : TRUE
         IN  <<x>> \o IterOrder(S \ {x})

\* The ascending sequence of a set of integers (sorted()).
RECURSIVE Sorted(_)
Sorted(S) ==
    IF S = {} THEN <<>>
    ELSE LET x == CHOOSE y \in S : \A z \in S : y <= z
         IN  <<x>> \o Sorted(S \ {x})

\* ------------------------------------------------------------ reference data

\* Phenotype identifiers and names of the reference data.
HpoIds == {"HP:1", "HP:2"}
PhenotypeName(hpo_id) ==
    IF hpo_id = "HP:1" THEN "Obesity"
    ELSE IF hpo_id = "HP:2" THEN "Polydactyly"
    ELSE "Nystagmus"

\* A gene symbol is the pair <<module, index>>.
GeneIndexes == {1, 2, 3}
GeneClassification(i) ==
    IF i = 1 THEN "core" ELSE IF i = 2 THEN "peripheral" ELSE "unstable"
GeneStability(i) == IF i = 1 THEN 90 ELSE IF i = 2 THEN 50 ELSE 20

ZeroKind == [prevalence |-> 0, specificity |-> 0, with |-> <<>>, without |-> <<1, 2, 3>>]
LowKind == [prevalence |-> 10, specificity |-> 30, with |-> <<3>>, without |-> <<1, 2>>]
HighKind == [prevalence |-> 60, specificity |-> 40, with |-> <<1, 2>>, without |-> <<3>>]
\* A row that also lists gene 4, which the gene table does not assign to
\* the row's module.
SharedKind == [prevalence |-> 50, specificity |-> 20, with |-> <<1, 4>>, without |-> <<2, 3>>]

\* Module sheets: the rows, <<hpo_id, kind>> pairs, in sheet order.
SheetA == << <<"HP:1", HighKind>>, <<"HP:2", LowKind>> >>
SheetB == << <<"HP:2", HighKind>>, <<"HP:1", ZeroKind>> >>
SheetC == << <<"HP:1", LowKind>> >>
SheetD == << <<"HP:1", HighKind>>, <<"HP:2", HighKind>> >>
SheetE == << <<"HP:2", HighKind>> >>
SheetF == << <<"HP:1", SharedKind>>, <<"HP:2", LowKind>> >>
\* A sheet whose hpo_id column holds an identifier of another vocabulary.
SheetG == << <<"ORPHA:3", HighKind>>, <<"HP:1", LowKind>> >>
\* Sheets with a third phenotype, so that two phenotypes stay unasked once
\* one is observed.
SheetH == << <<"HP:3", HighKind>>, <<"HP:1", HighKind>>, <<"HP:2", HighKind>> >>
SheetI == << <<"HP:3", HighKind>>, <<"HP:1", LowKind>> >>
SheetJ == << <<"HP:3", HighKind>> >>

\* Sheets of the data sets the stateless engines are called on.
EngineSheets == {SheetA, SheetB, SheetC, SheetD, SheetE}
\* Sheets of the data sets a session runs on.
SessionSheets == {SheetA, SheetE}
\* Sheets of the data sets resolve_phenotype is called on.
ResolveSheets == {SheetA, SheetE, SheetG}
\* Sheets of the data sets rank_genes is called on.
GeneSheets == {SheetA, SheetB, SheetF}
\* Sheets of the data sets the question selectors are called on.
QuestionSheets == {SheetH, SheetI, SheetJ}

\* The gene symbol a sheet of module m lists under index i.  The sheets and
\* the gene table are separate files: an index of GeneIndexes is a gene the
\* table assigns to m; any other index is a gene the table assigns to module
\* m + 1, or to no module when the data set has no module m + 1.
GeneSymbol(m, i) == IF i \in GeneIndexes THEN <<m, i>> ELSE <<m + 1, 1>>

\* PhenotypeProfile of one row of module m's sheet.
PhenotypeProfile(m, row) ==
    [ name |-> PhenotypeName(row[1]),
      hpo_id |-> row[1],
      genes_with |-> [i \in 1..Len(row[2].with) |-> GeneSymbol(m, row[2].with[i])],
      genes_without |-> [i \in 1..Len(row[2].without) |-> GeneSymbol(m, row[2].without[i])],
      prevalence |-> row[2].prevalence,
      specificity |-> row[2].specificity ]

\* ModuleProfile built by _load_module_profiles from module m's sheet.
ModuleProfile(m, sheet) ==
    LET phenotypes == [i \in 1..Len(sheet) |-> PhenotypeProfile(m, sheet[i])]
    IN  [ module_id |-> m,
          phenotypes |-> phenotypes,
          all_genes |-> UNION {Range(phenotypes[i].genes_with)
                               \cup Range(phenotypes[i].genes_without)
                               : i \in 1..Len(phenotypes)} ]

\* GeneInfo built by _load_gene_mapping for every gene of the modules ms.
GeneMapping(ms) ==
    [ g \in ms \X GeneIndexes |->
        [ gene |-> g, module_id |-> g[1],
          stability_score |-> GeneStability(g[2]),
          classification |-> GeneClassification(g[2]) ] ]

\* The reference data sets with 1..MaxModules module sheets, each one of sheets.
ModuleProfileSets(sheets) ==
    UNION { { [m \in 0..(n - 1) |-> ModuleProfile(m, pick[m])]
              : pick \in [0..(n - 1) -> sheets] }
            : n \in 1..MaxModules }

\* ------------------------------------------------------------ data_loader.py

get_module_profile(module_id) ==
    IF module_id \in DOMAIN module_profiles
    THEN Some(module_profiles[module_id]) ELSE None

get_all_module_ids == Sorted(DOMAIN module_profiles)

get_gene_info(gene) ==
    IF gene \in DOMAIN gene_mapping THEN Some(gene_mapping[gene]) ELSE None

\* DataLoader.module_genes: the genes the gene table assigns to the module.
get_module_genes(module_id) ==
    {g \in DOMAIN gene_mapping : gene_mapping[g].module_id = module_id}

\* dict.get on a phenotype map.
PhenoGet(phenotypes, hpo_id) ==
    LET hits == {i \in 1..Len(phenotypes) : phenotypes[i].hpo_id = hpo_id}
    IN  IF hits = {} THEN None ELSE Some(phenotypes[CHOOSE i \in hits : TRUE])

\* --------------------------------------------------------- scoring_engine.py

\* Faulty variant: the contribution has the wrong sign.
score_phenotypeNegated(pheno) ==
    -((prevalence_weight * pheno.prevalence + specificity_weight * pheno.specificity)
        * (ScoreScale \div 100))

score_phenotype(pheno) ==
    (prevalence_weight * pheno.prevalence + specificity_weight * pheno.specificity)
        * (ScoreScale \div 100)

\* One pass of the loop over the observed identifiers: the items it appends.
RECURSIVE ObservedItems(_, _)
ObservedItems(phenotypes, ids) ==
    IF ids = <<>> THEN <<>>
    ELSE LET pheno == PhenoGet(phenotypes, Head(ids))
             rest == ObservedItems(phenotypes, Tail(ids))
         IN  IF pheno # None
             THEN << [ phenotype_name |-> pheno[1].name,
                       hpo_id |-> Head(ids),
                       contribution |-> score_phenotype(pheno[1]),
                       explanation |-> "present" ] >> \o rest
             ELSE rest

\* Faulty variant: the penalty has the wrong sign.
PenaltyNegated(pheno) ==
    -((score_phenotype(pheno) * ExclusionPenaltyNum) \div ExclusionPenaltyDen)

\* The penalty of an excluded phenotype: score_phenotype * exclusion_penalty.
Penalty(pheno) ==
    (score_phenotype(pheno) * ExclusionPenaltyNum) \div ExclusionPenaltyDen

\* Faulty variant: the test prevalence > 0 is missing.
RECURSIVE ExcludedItemsNoPrevalenceTest(_, _)
ExcludedItemsNoPrevalenceTest(phenotypes, ids) ==
    IF ids = <<>> THEN <<>>
    ELSE LET pheno == PhenoGet(phenotypes, Head(ids))
             rest == ExcludedItemsNoPrevalenceTest(phenotypes, Tail(ids))
         IN  IF pheno # None
             THEN << [ phenotype_name |-> pheno[1].name,
                       hpo_id |-> Head(ids),
                       contribution |-> -Penalty(pheno[1]),
                       explanation |-> "excluded" ] >> \o rest
             ELSE rest

\* One pass of the loop over the excluded identifiers: the items it appends.
RECURSIVE ExcludedItems(_, _)
ExcludedItems(phenotypes, ids) ==
    IF ids = <<>> THEN <<>>
    ELSE LET pheno == PhenoGet(phenotypes, Head(ids))
             rest == ExcludedItems(phenotypes, Tail(ids))
         IN  IF pheno # None /\ pheno[1].prevalence > 0
             THEN << [ phenotype_name |-> pheno[1].name,
                       hpo_id |-> Head(ids),
                       contribution |-> -Penalty(pheno[1]),
                       explanation |-> "excluded" ] >> \o rest
             ELSE rest

Contributions(items) == [i \in 1..Len(items) |-> items[i].contribution]

\* Faulty variant: the floor at 0 is forgotten.
Floor0NoFloor(score) == score

Floor0(score) == Max(0, score)

score_module(module_id, observed_hpo_ids, excluded_hpo_ids) ==
    LET profile == get_module_profile(module_id)
    IN  IF profile = None
        THEN [score |-> 0, explanations |-> <<>>]
        ELSE LET explanations ==
                     ObservedItems(profile[1].phenotypes, IterOrder(observed_hpo_ids))
                     \o ExcludedItems(profile[1].phenotypes, IterOrder(excluded_hpo_ids))
             IN  [ score |-> Floor0(SumSeq(Contributions(explanations))),
                   explanations |-> explanations ]

PhenotypeInfo(pheno, hpo_id) ==
    [ name |-> pheno.name, hpo_id |-> hpo_id, prevalence |-> pheno.prevalence,
      specificity |-> pheno.specificity, genes |-> pheno.genes_with ]

\* The contributing (positive = TRUE) or penalized (positive = FALSE) list
\* rank_modules collects from the explanation items.
RECURSIVE Collect(_, _, _)
Collect(profile, explanations, positive) ==
    IF explanations = <<>> THEN <<>>
    ELSE LET exp == Head(explanations)
             pheno == IF profile # None
                      THEN PhenoGet(profile[1].phenotypes, exp.hpo_id) ELSE None
             rest == Collect(profile, Tail(explanations), positive)
         IN  IF pheno # None /\ ((exp.contribution > 0) = positive)
             THEN <<PhenotypeInfo(pheno[1], exp.hpo_id)>> \o rest
             ELSE rest

\* The ModuleMatch rank_modules appends for one module, before ranking.
ModuleMatch(module_id, observed_hpo_ids, excluded_hpo_ids) ==
    LET scored == score_module(module_id, observed_hpo_ids, excluded_hpo_ids)
        profile == get_module_profile(module_id)
    IN  [ module_id |-> module_id,
          score |-> scored.score,
          confidence |-> FracZero,
          gene_count |-> IF profile # None THEN Cardinality(profile[1].all_genes) ELSE 0,
          contributing_phenotypes |-> Collect(profile, scored.explanations, TRUE),
          penalized_phenotypes |-> Collect(profile, scored.explanations, FALSE) ]

\* Faulty variant: a result is put before the results of equal score.
RECURSIVE InsertByScoreBeforeTies(_, _)
InsertByScoreBeforeTies(sorted, x) ==
    IF sorted = <<>> THEN <<x>>
    ELSE IF Head(sorted).score > x.score
         THEN <<Head(sorted)>> \o InsertByScoreBeforeTies(Tail(sorted), x)
         ELSE <<x>> \o sorted

\* list.sort(key=score, reverse=True): stable, equal scores keep their order.
RECURSIVE InsertByScore(_, _)
InsertByScore(sorted, x) ==
    IF sorted = <<>> THEN <<x>>
    ELSE IF Head(sorted).score >= x.score
         THEN <<Head(sorted)>> \o InsertByScore(Tail(sorted), x)
         ELSE <<x>> \o sorted

\* Faulty variant: the results are left in module order.
SortByScoreNoSort(results) == results

RECURSIVE SortByScore(_)
SortByScore(results) ==
    IF results = <<>> THEN <<>>
    ELSE InsertByScore(SortByScore(SubSeq(results, 1, Len(results) - 1)),
                       results[Len(results)])

\* Faulty variant: the top match gets confidence 1 whatever the separation.
TopConfidenceAlwaysOne(results) == FracOne

\* confidence of the top match when there are at least two results.
TopConfidence(results) ==
    FracMin(FracOne, FracMax(FracZero,
        Frac(results[1].score - results[2].score, results[1].score)))

\* Faulty variant: the relative score is not scaled by 1 - confidence[0].
LowerConfidenceNoScale(results, i) == Frac(results[i].score, results[1].score)

\* confidence of a lower match.
LowerConfidence(results, i) ==
    FracMul(Frac(results[i].score, results[1].score),
            FracSub(FracOne, TopConfidence(results)))

\* Faulty variant: the branch for a single result is missing.
AssignConfidenceNoSingle(results) ==
    IF Len(results) >= 2 /\ results[1].score > 0
    THEN [i \in 1..Len(results) |->
            [results[i] EXCEPT !.confidence =
                IF i = 1 THEN TopConfidence(results) ELSE LowerConfidence(results, i)]]
    ELSE results

\* Faulty variant: a single result gets confidence 1 whatever its score.
AssignConfidenceNoScoreCheck(results) ==
    IF Len(results) >= 2 /\ results[1].score > 0
    THEN [i \in 1..Len(results) |->
            [results[i] EXCEPT !.confidence =
                IF i = 1 THEN TopConfidence(results) ELSE LowerConfidence(results, i)]]
    ELSE IF Len(results) = 1
         THEN [i \in 1..Len(results) |-> [results[i] EXCEPT !.confidence = FracOne]]
         ELSE results

\* The confidence calculation on the sorted results.
AssignConfidence(results) ==
    IF Len(results) >= 2 /\ results[1].score > 0
    THEN [i \in 1..Len(results) |->
            [results[i] EXCEPT !.confidence =
                IF i = 1 THEN TopConfidence(results) ELSE LowerConfidence(results, i)]]
    ELSE IF Len(results) = 1 /\ results[1].score > 0
         THEN [i \in 1..Len(results) |-> [results[i] EXCEPT !.confidence = FracOne]]
         ELSE results

rank_modules(observed_hpo_ids, excluded_hpo_ids) ==
    LET ids == get_all_module_ids
        results == [i \in 1..Len(ids) |->
                      ModuleMatch(ids[i], observed_hpo_ids, excluded_hpo_ids)]
    IN  AssignConfidence(SortByScore(results))

\* One gene_scores entry updated (or created) for a gene of genes_with.
AddSupport(gene_scores, gene, contribution, name) ==
    LET hits == {i \in 1..Len(gene_scores) : gene_scores[i].gene = gene}
    IN  IF hits = {}
        THEN Append(gene_scores, [gene |-> gene, score |-> contribution, phenos |-> <<name>>])
        ELSE LET i == CHOOSE j \in hits : TRUE
             IN  [gene_scores EXCEPT ![i] =
                    [ gene |-> gene, score |-> @.score + contribution,
                      phenos |-> Append(@.phenos, name) ]]

RECURSIVE AddSupportAll(_, _, _, _)
AddSupportAll(gene_scores, genes, contribution, name) ==
    IF genes = <<>> THEN gene_scores
    ELSE AddSupportAll(AddSupport(gene_scores, Head(genes), contribution, name),
                       Tail(genes), contribution, name)

\* The loop over the observed identifiers in rank_genes.
RECURSIVE SupportLoop(_, _, _)
SupportLoop(gene_scores, phenotypes, ids) ==
    IF ids = <<>> THEN gene_scores
    ELSE LET pheno == PhenoGet(phenotypes, Head(ids))
         IN  IF pheno = None
             THEN SupportLoop(gene_scores, phenotypes, Tail(ids))
             ELSE SupportLoop(
                      AddSupportAll(gene_scores, pheno[1].genes_with,
                                    score_phenotype(pheno[1]), pheno[1].name),
                      phenotypes, Tail(ids))

\* The module genes without phenotype support, added with score 0.
RECURSIVE AddModuleGenes(_, _)
AddModuleGenes(gene_scores, genes) ==
    IF genes = <<>> THEN gene_scores
    ELSE AddModuleGenes(
             IF \E i \in 1..Len(gene_scores) : gene_scores[i].gene = Head(genes)
             THEN gene_scores
             ELSE Append(gene_scores, [gene |-> Head(genes), score |-> 0, phenos |-> <<>>]),
             Tail(genes))

\* Faulty variant: the stability bonus is not applied.
FinalScoreNoBonus(support_score, classification) == support_score

\* The stability bonus applied to a support score.
FinalScore(support_score, classification) ==
    IF classification = "core" THEN support_score + stability_bonus
    ELSE IF classification = "unstable" THEN support_score - (stability_bonus \div 2)
    ELSE support_score

\* The GeneCandidate list, genes without GeneInfo dropped.
RECURSIVE Candidates(_, _)
Candidates(gene_scores, module_id) ==
    IF gene_scores = <<>> THEN <<>>
    ELSE LET e == Head(gene_scores)
             gene_info == get_gene_info(e.gene)
             rest == Candidates(Tail(gene_scores), module_id)
         IN  IF gene_info = None THEN rest
             ELSE << [ gene |-> e.gene,
                       module_id |-> module_id,
                       support_score |-> FinalScore(e.score, gene_info[1].classification),
                       stability_score |-> gene_info[1].stability_score,
                       classification |-> gene_info[1].classification,
                       supporting_phenotypes |-> e.phenos ] >> \o rest

\* key=(support_score, stability_score), compared as tuples.
GeneKeyGe(a, b) ==
    \/ a.support_score > b.support_score
    \/ a.support_score = b.support_score /\ a.stability_score >= b.stability_score

RECURSIVE InsertByGeneKey(_, _)
InsertByGeneKey(sorted, x) ==
    IF sorted = <<>> THEN <<x>>
    ELSE IF GeneKeyGe(Head(sorted), x)
         THEN <<Head(sorted)>> \o InsertByGeneKey(Tail(sorted), x)
         ELSE <<x>> \o sorted

RECURSIVE SortByGeneKey(_)
SortByGeneKey(candidates) ==
    IF candidates = <<>> THEN <<>>
    ELSE InsertByGeneKey(SortByGeneKey(SubSeq(candidates, 1, Len(candidates) - 1)),
                         candidates[Len(candidates)])

rank_genes(module_id, observed_hpo_ids) ==
    LET profile == get_module_profile(module_id)
    IN  IF profile = None THEN <<>>
        ELSE LET supported == SupportLoop(<<>>, profile[1].phenotypes,
                                          IterOrder(observed_hpo_ids))
                 gene_scores == AddModuleGenes(supported,
                                               IterOrder(get_module_genes(module_id)))
             IN  SortByGeneKey(Candidates(gene_scores, module_id))

\* ------------------------------------------------------ prediction_engine.py

\* PredictionConfig defaults, in percent.
min_prevalence == 20
min_specificity == 5
max_predictions == 10

\* _build_reason: the bucket of the reason text and the numbers it prints.
build_reason(pheno) ==
    IF pheno.prevalence >= 80 THEN <<"very common", pheno.prevalence>>
    ELSE IF pheno.prevalence >= 50 THEN <<"common", pheno.prevalence>>
    ELSE IF pheno.specificity >= 50 THEN <<"highly specific", pheno.specificity>>
    ELSE <<"characteristic", pheno.prevalence, pheno.specificity>>

\* list.sort(key=lambda x: x[0], reverse=True) on (score, item) pairs: stable.
RECURSIVE InsertByKey(_, _)
InsertByKey(sorted, x) ==
    IF sorted = <<>> THEN <<x>>
    ELSE IF Head(sorted)[1] >= x[1]
         THEN <<Head(sorted)>> \o InsertByKey(Tail(sorted), x)
         ELSE <<x>> \o sorted

\* Faulty variant: the candidates stay in insertion order.
SortByKeyNoSort(candidates) == candidates

RECURSIVE SortByKey(_)
SortByKey(candidates) ==
    IF candidates = <<>> THEN <<>>
    ELSE InsertByKey(SortByKey(SubSeq(candidates, 1, Len(candidates) - 1)),
                     candidates[Len(candidates)])

\* [pred for _, pred in candidates[:n]]
Predictions(candidates, n) ==
    [i \in 1..(IF n <= Len(candidates) THEN n ELSE Len(candidates)) |-> candidates[i][2]]

\* The (score, PhenotypePrediction) pair of a phenotype; the score is
\* prevalence * specificity / 100, kept times 100.
PredictionCandidate(pheno) ==
    << pheno.prevalence * pheno.specificity,
       [ name |-> pheno.name, hpo_id |-> pheno.hpo_id,
         prevalence |-> pheno.prevalence, specificity |-> pheno.specificity,
         reason |-> build_reason(pheno) ] >>

\* The loop of predict_missing_phenotypes over the module's phenotypes.
RECURSIVE MissingCandidates(_, _)
MissingCandidates(phenotypes, already_mentioned) ==
    IF phenotypes = <<>> THEN <<>>
    ELSE LET pheno == Head(phenotypes)
             rest == MissingCandidates(Tail(phenotypes), already_mentioned)
         IN  IF \/ pheno.hpo_id \in already_mentioned
                \/ pheno.prevalence < min_prevalence
                \/ pheno.specificity < min_specificity
             THEN rest
             ELSE <<PredictionCandidate(pheno)>> \o rest

predict_missing_phenotypes(module_id, observed_hpo_ids, excluded_hpo_ids) ==
    LET profile == get_module_profile(module_id)
    IN  IF profile = None THEN <<>>
        ELSE Predictions(
                 SortByKey(MissingCandidates(profile[1].phenotypes,
                                             observed_hpo_ids \cup excluded_hpo_ids)),
                 max_predictions)

get_expected_phenotypes(module_id, top_n) ==
    LET profile == get_module_profile(module_id)
    IN  IF profile = None THEN <<>>
        ELSE Predictions(
                 SortByKey([i \in 1..Len(profile[1].phenotypes) |->
                               PredictionCandidate(profile[1].phenotypes[i])]),
                 top_n)

\* Faulty variant: a later phenotype with an equal weighted score replaces
\* the discriminator.
RECURSIVE DiscriminateLastWins(_, _, _, _)
DiscriminateLastWins(phenotypes, second_phenotypes, already_asked, acc) ==
    IF phenotypes = <<>> THEN acc
    ELSE LET pheno == Head(phenotypes)
             rest == Tail(phenotypes)
             second_pheno == PhenoGet(second_phenotypes, pheno.hpo_id)
             top_prevalence == pheno.prevalence
             second_prevalence ==
                 IF second_pheno # None THEN second_pheno[1].prevalence ELSE 0
             discrimination == Abs(top_prevalence - second_prevalence)
             \* avg_prevalence < 10, both sides doubled
             rare == top_prevalence + second_prevalence < 2 * 10
             weighted_score == discrimination * (top_prevalence + second_prevalence)
         IN  IF pheno.hpo_id \in already_asked \/ rare
             THEN DiscriminateLastWins(rest, second_phenotypes, already_asked, acc)
             ELSE IF weighted_score >= acc.score
                  THEN DiscriminateLastWins(rest, second_phenotypes, already_asked,
                         [ score |-> weighted_score,
                           best |-> Some([ name |-> pheno.name,
                                           hpo_id |-> pheno.hpo_id,
                                           prevalence |-> top_prevalence,
                                           specificity |-> pheno.specificity,
                                           reason |-> IF top_prevalence > second_prevalence
                                                      THEN "more common in best match"
                                                      ELSE "less common in best match" ]) ])
                  ELSE DiscriminateLastWins(rest, second_phenotypes, already_asked, acc)

\* Faulty variant: the rarity floor is missing.
RECURSIVE DiscriminateNoRarityFloor(_, _, _, _)
DiscriminateNoRarityFloor(phenotypes, second_phenotypes, already_asked, acc) ==
    IF phenotypes = <<>> THEN acc
    ELSE LET pheno == Head(phenotypes)
             rest == Tail(phenotypes)
             second_pheno == PhenoGet(second_phenotypes, pheno.hpo_id)
             top_prevalence == pheno.prevalence
             second_prevalence ==
                 IF second_pheno # None THEN second_pheno[1].prevalence ELSE 0
             discrimination == Abs(top_prevalence - second_prevalence)
             rare == FALSE
             weighted_score == discrimination * (top_prevalence + second_prevalence)
         IN  IF pheno.hpo_id \in already_asked \/ rare
             THEN DiscriminateNoRarityFloor(rest, second_phenotypes, already_asked, acc)
             ELSE IF weighted_score > acc.score
                  THEN DiscriminateNoRarityFloor(rest, second_phenotypes, already_asked,
                         [ score |-> weighted_score,
                           best |-> Some([ name |-> pheno.name,
                                           hpo_id |-> pheno.hpo_id,
                                           prevalence |-> top_prevalence,
                                           specificity |-> pheno.specificity,
                                           reason |-> IF top_prevalence > second_prevalence
                                                      THEN "more common in best match"
                                                      ELSE "less common in best match" ]) ])
                  ELSE DiscriminateNoRarityFloor(rest, second_phenotypes, already_asked, acc)

\* The discriminator kept after the loop over the top module's phenotypes:
\* best is the Optional prediction, score its weighted score times 200.
RECURSIVE Discriminate(_, _, _, _)
Discriminate(phenotypes, second_phenotypes, already_asked, acc) ==
    IF phenotypes = <<>> THEN acc
    ELSE LET pheno == Head(phenotypes)
             rest == Tail(phenotypes)
             second_pheno == PhenoGet(second_phenotypes, pheno.hpo_id)
             top_prevalence == pheno.prevalence
             second_prevalence ==
                 IF second_pheno # None THEN second_pheno[1].prevalence ELSE 0
             discrimination == Abs(top_prevalence - second_prevalence)
             \* avg_prevalence < 10, both sides doubled
             rare == top_prevalence + second_prevalence < 2 * 10
             weighted_score == discrimination * (top_prevalence + second_prevalence)
         IN  IF pheno.hpo_id \in already_asked \/ rare
             THEN Discriminate(rest, second_phenotypes, already_asked, acc)
             ELSE IF weighted_score > acc.score
                  THEN Discriminate(rest, second_phenotypes, already_asked,
                         [ score |-> weighted_score,
                           best |-> Some([ name |-> pheno.name,
                                           hpo_id |-> pheno.hpo_id,
                                           prevalence |-> top_prevalence,
                                           specificity |-> pheno.specificity,
                                           reason |-> IF top_prevalence > second_prevalence
                                                      THEN "more common in best match"
                                                      ELSE "less common in best match" ]) ])
                  ELSE Discriminate(rest, second_phenotypes, already_asked, acc)

suggest_next_question(ranked_modules, observed_hpo_ids, excluded_hpo_ids) ==
    IF Len(ranked_modules) < 2 THEN None
    ELSE LET top_profile == get_module_profile(ranked_modules[1].module_id)
             second_profile == get_module_profile(ranked_modules[2].module_id)
         IN  IF top_profile = None \/ second_profile = None THEN None
             ELSE Discriminate(top_profile[1].phenotypes, second_profile[1].phenotypes,
                               observed_hpo_ids \cup excluded_hpo_ids,
                               [score |-> 0, best |-> None]).best

\* The loop of get_discriminative_questions over the top module's phenotypes:
\* the (weighted score, prediction) pairs, the weighted score kept times 200.
RECURSIVE DiscriminativeCandidates(_, _, _, _, _)
DiscriminativeCandidates(phenotypes, second_phenotypes, asked, top_id, second_id) ==
    IF phenotypes = <<>> THEN <<>>
    ELSE LET pheno == Head(phenotypes)
             rest == DiscriminativeCandidates(Tail(phenotypes), second_phenotypes,
                                              asked, top_id, second_id)
             second_pheno == PhenoGet(second_phenotypes, pheno.hpo_id)
             top_prevalence == pheno.prevalence
             second_prevalence ==
                 IF second_pheno # None THEN second_pheno[1].prevalence ELSE 0
             discrimination == Abs(top_prevalence - second_prevalence)
             \* avg_prevalence < 10, both sides doubled
             rare == top_prevalence + second_prevalence < 2 * 10
         IN  IF pheno.hpo_id \in asked \/ rare THEN rest
             ELSE << << discrimination * (top_prevalence + second_prevalence),
                        [ name |-> pheno.name, hpo_id |-> pheno.hpo_id,
                          prevalence |-> top_prevalence,
                          specificity |-> pheno.specificity,
                          reason |-> <<top_prevalence, top_id,
                                       second_prevalence, second_id>> ] >> >>
                  \o rest

\* Faulty variant: the test on the second module's score is missing.
get_discriminative_questionsNoScoreTest(ranked_modules, observed_hpo_ids, excluded_hpo_ids, top_n) ==
    IF Len(ranked_modules) < 2 THEN <<>>
    ELSE LET top_profile == get_module_profile(ranked_modules[1].module_id)
             second_profile == get_module_profile(ranked_modules[2].module_id)
         IN  IF top_profile = None \/ second_profile = None THEN <<>>
             ELSE Predictions(
                      SortByKey(DiscriminativeCandidates(
                          top_profile[1].phenotypes, second_profile[1].phenotypes,
                          observed_hpo_ids \cup excluded_hpo_ids,
                          ranked_modules[1].module_id, ranked_modules[2].module_id)),
                      top_n)

get_discriminative_questions(ranked_modules, observed_hpo_ids, excluded_hpo_ids, top_n) ==
    IF Len(ranked_modules) < 2 THEN <<>>
    ELSE IF ranked_modules[2].score <= 0 THEN <<>>
    ELSE LET top_profile == get_module_profile(ranked_modules[1].module_id)
             second_profile == get_module_profile(ranked_modules[2].module_id)
         IN  IF top_profile = None \/ second_profile = None THEN <<>>
             ELSE Predictions(
                      SortByKey(DiscriminativeCandidates(
                          top_profile[1].phenotypes, second_profile[1].phenotypes,
                          observed_hpo_ids \cup excluded_hpo_ids,
                          ranked_modules[1].module_id, ranked_modules[2].module_id)),
                      top_n)

\* One contribution unit of explain_scoring is 1/ExplainScale: the observed
\* score is (prevalence + specificity) / 200, the penalty the same / 400.
ExplainScale == 2 * ScoreScale

\* The items explain_scoring appends for the observed identifiers.
RECURSIVE ExplainObserved(_, _)
ExplainObserved(phenotypes, ids) ==
    IF ids = <<>> THEN <<>>
    ELSE LET pheno == PhenoGet(phenotypes, Head(ids))
         IN  << IF pheno # None
                THEN [ phenotype_name |-> pheno[1].name,
                       hpo_id |-> Head(ids),
                       contribution |-> (pheno[1].prevalence + pheno[1].specificity)
                                            * (ExplainScale \div 200),
                       explanation |-> "supports" ]
                ELSE [ phenotype_name |-> "Unknown",
                       hpo_id |-> Head(ids),
                       contribution |-> 0,
                       explanation |-> "not present" ] >>
             \o ExplainObserved(phenotypes, Tail(ids))

\* The items explain_scoring appends for the excluded identifiers.
RECURSIVE ExplainExcluded(_, _)
ExplainExcluded(phenotypes, ids) ==
    IF ids = <<>> THEN <<>>
    ELSE LET pheno == PhenoGet(phenotypes, Head(ids))
             rest == ExplainExcluded(phenotypes, Tail(ids))
         IN  IF pheno # None /\ pheno[1].prevalence > 0
             THEN << [ phenotype_name |-> pheno[1].name,
                       hpo_id |-> Head(ids),
                       contribution |-> -((pheno[1].prevalence + pheno[1].specificity)
                                            * (ExplainScale \div 400)),
                       explanation |-> "penalizes" ] >> \o rest
             ELSE rest

\* explanations.sort(key=lambda x: abs(x.contribution), reverse=True): stable.
RECURSIVE InsertByAbsContribution(_, _)
InsertByAbsContribution(sorted, x) ==
    IF sorted = <<>> THEN <<x>>
    ELSE IF Abs(Head(sorted).contribution) >= Abs(x.contribution)
         THEN <<Head(sorted)>> \o InsertByAbsContribution(Tail(sorted), x)
         ELSE <<x>> \o sorted

RECURSIVE SortByAbsContribution(_)
SortByAbsContribution(explanations) ==
    IF explanations = <<>> THEN <<>>
    ELSE InsertByAbsContribution(
             SortByAbsContribution(SubSeq(explanations, 1, Len(explanations) - 1)),
             explanations[Len(explanations)])

\* Faulty variant: a module without profile is explained as an empty profile.
explain_scoringEmptyProfile(module_id, observed_hpo_ids, excluded_hpo_ids) ==
    LET profile == get_module_profile(module_id)
        phenotypes == IF profile = None THEN <<>> ELSE profile[1].phenotypes
    IN  SortByAbsContribution(
            ExplainObserved(phenotypes, IterOrder(observed_hpo_ids))
            \o ExplainExcluded(phenotypes, IterOrder(excluded_hpo_ids)))

explain_scoring(module_id, observed_hpo_ids, excluded_hpo_ids) ==
    LET profile == get_module_profile(module_id)
    IN  IF profile = None THEN <<>>
        ELSE SortByAbsContribution(
                 ExplainObserved(profile[1].phenotypes, IterOrder(observed_hpo_ids))
                 \o ExplainExcluded(profile[1].phenotypes, IterOrder(excluded_hpo_ids)))

\* ----------------------------------------------------------- name resolution

\* str.startswith('HP:') on the identifiers of the model.
StartsWithHP(identifier) == identifier \in {"HP:1", "HP:2", "HP:9"}

\* str.lower() on the identifiers and names of the model.
Lower(s) ==
    IF s = "Obesity" THEN "obesity"
    ELSE IF s \in {"Polydactyly", "POLYDACTYLY"} THEN "polydactyly"
    ELSE IF s = "Nystagmus" THEN "nystagmus"
    ELSE IF s = "HP:1" THEN "hp:1"
    ELSE IF s = "HP:2" THEN "hp:2"
    ELSE IF s = "HP:9" THEN "hp:9"
    ELSE IF s = "ORPHA:3" THEN "orpha:3"
    ELSE s

\* Keys of DataLoader.phenotype_to_modules.
phenotype_to_modules_keys ==
    UNION { {module_profiles[m].phenotypes[i].hpo_id
             : i \in 1..Len(module_profiles[m].phenotypes)}
            : m \in DOMAIN module_profiles }

\* All phenotype rows in the order _build_indexes visits them.
RECURSIVE RowsInOrder(_)
RowsInOrder(ids) ==
    IF ids = <<>> THEN <<>>
    ELSE module_profiles[Head(ids)].phenotypes \o RowsInOrder(Tail(ids))

\* DataLoader.phenotype_name_to_hpo.get: the first row with that lowered name wins.
phenotype_name_to_hpo(name_lower) ==
    LET rows == RowsInOrder(get_all_module_ids)
        hits == {i \in 1..Len(rows) : Lower(rows[i].name) = name_lower}
    IN  IF hits = {} THEN None
        ELSE Some(rows[CHOOSE i \in hits : \A j \in hits : i <= j].hpo_id)

\* Faulty variant: an HPO id is returned without the look-up in the index.
resolve_phenotypeNoLookup(identifier) ==
    IF StartsWithHP(identifier) THEN Some(identifier)
    ELSE phenotype_name_to_hpo(Lower(identifier))

resolve_phenotype(identifier) ==
    IF StartsWithHP(identifier)
    THEN IF identifier \in phenotype_to_modules_keys THEN Some(identifier) ELSE None
    ELSE phenotype_name_to_hpo(Lower(identifier))

\* ------------------------------------------------------------ decision_tree.py

Responses == {"yes", "no", "unknown"}

\* What the caller may pass to answer.
Identifiers == {"HP:1", "HP:2", "obesity"}
PhenotypeNames == {None}
TopNs == {1, 20}

\* Faulty variant: the identifier is filed as given, never resolved.
ResolvedIdUnresolved(identifier) == identifier

\* The hpo_id answer() files the identifier under.
ResolvedId(identifier) ==
    LET hpo_id == resolve_phenotype(identifier)
    IN  IF hpo_id = None THEN identifier ELSE hpo_id[1]

\* s[:n]
Take(s, n) == SubSeq(s, 1, Min(n, Len(s)))

\* _cached_modules after _update_cache().
UpdatedCache ==
    IF ~cache_valid THEN rank_modules(observed, excluded) ELSE cached_modules

\* The number of rank_modules calls after _update_cache(): one more when the
\* cache is stale.
RankCallsAfterUpdate == IF ~cache_valid THEN rank_calls + 1 ELSE rank_calls

BestModuleOf(cached) == IF cached # <<>> THEN Some(cached[1]) ELSE None

CandidateGenesOf(cached, obs, top_n) ==
    LET best == BestModuleOf(cached)
    IN  IF best = None \/ best[1].score <= 0 THEN <<>>
        ELSE Take(rank_genes(best[1].module_id, obs), top_n)

\* Faulty variant: the unknown answers are not passed as already asked.
NextQuestionOfExcludedOnly(cached, obs, exc, unk) ==
    IF cached = <<>> THEN None
    ELSE suggest_next_question(cached, obs, exc)

\* Faulty variant: the excluded set is not passed on.
PredictedPhenotypesOfObservedOnly(cached, obs, exc, top_n) ==
    LET best == BestModuleOf(cached)
    IN  IF best = None \/ best[1].score <= 0 THEN <<>>
        ELSE Take(predict_missing_phenotypes(best[1].module_id, obs, {}), top_n)

\* What get_predicted_phenotypes returns on the updated cache.
PredictedPhenotypesOf(cached, obs, exc, top_n) ==
    LET best == BestModuleOf(cached)
    IN  IF best = None \/ best[1].score <= 0 THEN <<>>
        ELSE Take(predict_missing_phenotypes(best[1].module_id, obs, exc), top_n)

\* Faulty variant: the answered identifiers are not passed on.
NextQuestionOfNothingAsked(cached, obs, exc, unk) ==
    IF cached = <<>> THEN None
    ELSE suggest_next_question(cached, {}, {})

NextQuestionOf(cached, obs, exc, unk) ==
    IF cached = <<>> THEN None
    ELSE suggest_next_question(cached, obs, exc \cup unk)

Call(op, args, ret) == [op |-> op, args |-> args, ret |-> ret]

Init ==
    /\ module_profiles \in ModuleProfileSets(SessionSheets)
    /\ gene_mapping = GeneMapping(DOMAIN module_profiles)
    /\ observed = {}
    /\ excluded = {}
    /\ unknown = {}
    /\ history = <<>>
    /\ cached_modules = <<>>
    /\ cache_valid = FALSE
    /\ rank_calls = 0
    /\ query_observed = {}
    /\ query_excluded = {}
    /\ last = Call("init", <<>>, None)

\* Faulty variant: reset() leaves the cache marked valid.
ResetKeepsCache ==
    /\ observed' = {}
    /\ excluded' = {}
    /\ unknown' = {}
    /\ history' = <<>>
    /\ rank_calls' = 0
    /\ last' = Call("reset", <<>>, None)
    /\ UNCHANGED <<dataVars, queryVars, cached_modules, cache_valid>>

Reset ==
    /\ observed' = {}
    /\ excluded' = {}
    /\ unknown' = {}
    /\ history' = <<>>
    /\ cache_valid' = FALSE
    /\ rank_calls' = 0
    /\ last' = Call("reset", <<>>, None)
    /\ UNCHANGED <<dataVars, queryVars, cached_modules>>

\* Faulty variant: the identifier is added without the three discards.
AnswerSetsNoDiscard(hpo_id, response) ==
    [ observed |-> IF response = "yes" THEN observed \cup {hpo_id} ELSE observed,
      excluded |-> IF response = "no" THEN excluded \cup {hpo_id} ELSE excluded,
      unknown |-> IF response \notin {"yes", "no"} THEN unknown \cup {hpo_id} ELSE unknown ]

\* Faulty variant: an unknown answer is also filed as excluded.
AnswerSetsUnknownExcluded(hpo_id, response) ==
    [ observed |-> IF response = "yes"
                   THEN (observed \ {hpo_id}) \cup {hpo_id} ELSE observed \ {hpo_id},
      excluded |-> IF response # "yes"
                   THEN (excluded \ {hpo_id}) \cup {hpo_id} ELSE excluded \ {hpo_id},
      unknown |-> IF response \notin {"yes", "no"}
                  THEN (unknown \ {hpo_id}) \cup {hpo_id} ELSE unknown \ {hpo_id} ]

\* Faulty variant: a YES answer empties the excluded set.
AnswerSetsYesClearsExcluded(hpo_id, response) ==
    [ observed |-> IF response = "yes"
                   THEN (observed \ {hpo_id}) \cup {hpo_id} ELSE observed \ {hpo_id},
      excluded |-> IF response = "no"
                   THEN (excluded \ {hpo_id}) \cup {hpo_id}
                   ELSE IF response = "yes" THEN {} ELSE excluded \ {hpo_id},
      unknown |-> IF response \notin {"yes", "no"}
                  THEN (unknown \ {hpo_id}) \cup {hpo_id} ELSE unknown \ {hpo_id} ]

\* The three sets after the discards and the add.
AnswerSets(hpo_id, response) ==
    [ observed |-> IF response = "yes"
                   THEN (observed \ {hpo_id}) \cup {hpo_id} ELSE observed \ {hpo_id},
      excluded |-> IF response = "no"
                   THEN (excluded \ {hpo_id}) \cup {hpo_id} ELSE excluded \ {hpo_id},
      unknown |-> IF response \notin {"yes", "no"}
                  THEN (unknown \ {hpo_id}) \cup {hpo_id} ELSE unknown \ {hpo_id} ]

\* The record answer() appends to the history.
HistoryRecord(identifier, response, phenotype_name) ==
    << IF phenotype_name # None THEN phenotype_name[1] ELSE identifier,
       ResolvedId(identifier), response >>

\* Faulty variant: an earlier record of the same hpo_id is replaced.
AppendHistoryDedup(h, record) ==
    Append(SelectSeq(h, LAMBDA x : x[2] # record[2]), record)

\* history.append(record)
AppendHistory(h, record) == Append(h, record)

\* Faulty variant: answer() leaves the cache marked as it was.
AnswerKeepsCache(identifier, response, phenotype_name) ==
    /\ Len(history) < MaxHistory
    /\ LET sets == AnswerSets(ResolvedId(identifier), response)
       IN  /\ observed' = sets.observed
           /\ excluded' = sets.excluded
           /\ unknown' = sets.unknown
    /\ history' = AppendHistory(history, HistoryRecord(identifier, response, phenotype_name))
    /\ rank_calls' = 0
    /\ last' = Call("answer", <<identifier, response, phenotype_name>>, None)
    /\ UNCHANGED <<dataVars, queryVars, cached_modules, cache_valid>>

Answer(identifier, response, phenotype_name) ==
    /\ Len(history) < MaxHistory
    /\ LET sets == AnswerSets(ResolvedId(identifier), response)
       IN  /\ observed' = sets.observed
           /\ excluded' = sets.excluded
           /\ unknown' = sets.unknown
    /\ history' = AppendHistory(history, HistoryRecord(identifier, response, phenotype_name))
    /\ cache_valid' = FALSE
    /\ rank_calls' = 0
    /\ last' = Call("answer", <<identifier, response, phenotype_name>>, None)
    /\ UNCHANGED <<dataVars, queryVars, cached_modules>>

\* Faulty variant: _update_cache() forgets to mark the cache valid.
GetterNoValidate(op, args, cached, ret) ==
    /\ cached_modules' = cached
    /\ cache_valid' = FALSE
    /\ rank_calls' = RankCallsAfterUpdate
    /\ last' = Call(op, args, ret)
    /\ UNCHANGED <<dataVars, queryVars, observed, excluded, unknown, history>>

\* A getter: _update_cache(), then the value returned.
Getter(op, args, cached, ret) ==
    /\ cached_modules' = cached
    /\ cache_valid' = TRUE
    /\ rank_calls' = RankCallsAfterUpdate
    /\ last' = Call(op, args, ret)
    /\ UNCHANGED <<dataVars, queryVars, observed, excluded, unknown, history>>

GetRankedModules ==
    \E cached \in {UpdatedCache} :
        Getter("get_ranked_modules", <<>>, cached, cached)

GetBestModule ==
    \E cached \in {UpdatedCache} :
        Getter("get_best_module", <<>>, cached, BestModuleOf(cached))

GetCandidateGenes(top_n) ==
    \E cached \in {UpdatedCache} :
        Getter("get_candidate_genes", <<top_n>>, cached,
               CandidateGenesOf(cached, observed, top_n))

GetNextQuestion ==
    \E cached \in {UpdatedCache} :
        Getter("get_next_question", <<>>, cached,
               NextQuestionOf(cached, observed, excluded, unknown))

Next ==
    \/ Reset
    \/ \E identifier \in Identifiers, response \in Responses,
          phenotype_name \in PhenotypeNames :
            Answer(identifier, response, phenotype_name)
    \/ GetRankedModules
    \/ GetBestModule
    \/ \E top_n \in TopNs : GetCandidateGenes(top_n)
    \/ GetNextQuestion

Spec == Init /\ [][Next]_vars

\* ------------------------------------- sessions asked for their predictions

\* Sheets of the data sets these sessions run on.
PredictedSheets == {SheetA, SheetD}

PredictedInit ==
    /\ module_profiles \in ModuleProfileSets(PredictedSheets)
    /\ gene_mapping = GeneMapping(DOMAIN module_profiles)
    /\ observed = {}
    /\ excluded = {}
    /\ unknown = {}
    /\ history = <<>>
    /\ cached_modules = <<>>
    /\ cache_valid = FALSE
    /\ rank_calls = 0
    /\ query_observed = {}
    /\ query_excluded = {}
    /\ last = Call("init", <<>>, None)

GetPredictedPhenotypes(top_n) ==
    \E cached \in {UpdatedCache} :
        Getter("get_predicted_phenotypes", <<top_n>>, cached,
               PredictedPhenotypesOf(cached, observed, excluded, top_n))

PredictedNext ==
    \/ Reset
    \/ \E identifier \in Identifiers, response \in Responses,
          phenotype_name \in PhenotypeNames :
            Answer(identifier, response, phenotype_name)
    \/ \E top_n \in TopNs : GetPredictedPhenotypes(top_n)

PredictedSpec == PredictedInit /\ [][PredictedNext]_vars

\* ------------------------------------------------------- the question loop

\* Sheets of the data sets the question loop runs on.
LoopSheets == {SheetA, SheetB, SheetD, SheetE}

LoopInit ==
    /\ module_profiles \in ModuleProfileSets(LoopSheets)
    /\ gene_mapping = GeneMapping(DOMAIN module_profiles)
    /\ observed = {}
    /\ excluded = {}
    /\ unknown = {}
    /\ history = <<>>
    /\ cached_modules = <<>>
    /\ cache_valid = FALSE
    /\ rank_calls = 0
    /\ query_observed = {}
    /\ query_excluded = {}
    /\ last = Call("init", <<>>, None)

\* next_q = session.get_next_question(), on a new session or after an answer.
LoopAsk ==
    /\ last.op \in {"init", "answer"}
    /\ GetNextQuestion

\* session.answer(next_q.hpo_id, response, next_q.name) for the question
\* just returned.
LoopAnswer ==
    /\ last.op = "get_next_question"
    /\ last.ret # None
    /\ \E response \in Responses :
          Answer(last.ret[1].hpo_id, response, Some(last.ret[1].name))

LoopNext ==
    \/ LoopAsk
    \/ LoopAnswer

\* The caller keeps asking and answering as long as a question is returned:
\* weak fairness of both steps.  get_next_question has no precondition, so
\* LoopAsk is enabled exactly when last.op is "init" or "answer" and it leaves
\* last.op = "get_next_question"; weak fairness of LoopAsk is therefore
\* written as the condition that the loop is not waiting to ask forever.
LoopSpec ==
    /\ LoopInit
    /\ [][LoopNext]_vars
    /\ WF_vars(LoopAnswer)
    /\ []<>(last.op \notin {"init", "answer"})

\* ----------------------------------------------- direct calls of the engines

\* Identifiers and module ids a caller may pass to the stateless engines.
EngineIds == HpoIds \cup {"HP:9"}
EngineModuleIds == 0..MaxModules

EngineInit ==
    /\ module_profiles \in ModuleProfileSets(EngineSheets)
    /\ gene_mapping = GeneMapping(DOMAIN module_profiles)
    /\ observed = {}
    /\ excluded = {}
    /\ unknown = {}
    /\ history = <<>>
    /\ cached_modules = <<>>
    /\ cache_valid = FALSE
    /\ rank_calls = 0
    /\ query_observed \in SUBSET EngineIds
    /\ query_excluded \in SUBSET EngineIds
    /\ last = Call("init", <<>>, None)

ScoreModuleCall(module_id) ==
    /\ last' = Call("score_module", <<module_id>>,
                    score_module(module_id, query_observed, query_excluded))
    /\ UNCHANGED <<dataVars, sessionVars, queryVars>>

RankModulesCall ==
    /\ last' = Call("rank_modules", <<>>, rank_modules(query_observed, query_excluded))
    /\ UNCHANGED <<dataVars, sessionVars, queryVars>>

EngineNext ==
    \/ \E module_id \in EngineModuleIds : ScoreModuleCall(module_id)
    \/ RankModulesCall

EngineSpec == EngineInit /\ [][EngineNext]_vars

\* ------------------------------------------- direct calls of resolve_phenotype

\* What a caller may pass to resolve_phenotype: HPO ids, known and unknown,
\* an identifier of another vocabulary, names in several spellings.
ResolveIdentifiers ==
    {"HP:1", "HP:2", "HP:9", "ORPHA:3", "obesity", "Obesity", "POLYDACTYLY",
     "nystagmus", "anosmia"}

ResolveInit ==
    /\ module_profiles \in ModuleProfileSets(ResolveSheets)
    /\ gene_mapping = GeneMapping(DOMAIN module_profiles)
    /\ observed = {}
    /\ excluded = {}
    /\ unknown = {}
    /\ history = <<>>
    /\ cached_modules = <<>>
    /\ cache_valid = FALSE
    /\ rank_calls = 0
    /\ query_observed = {}
    /\ query_excluded = {}
    /\ last = Call("init", <<>>, None)

ResolvePhenotypeCall(identifier) ==
    /\ last' = Call("resolve_phenotype", <<identifier>>, resolve_phenotype(identifier))
    /\ UNCHANGED <<dataVars, sessionVars, queryVars>>

ResolveNext == \E identifier \in ResolveIdentifiers : ResolvePhenotypeCall(identifier)

ResolveSpec == ResolveInit /\ [][ResolveNext]_vars

\* -------------------------------------------------- direct calls of rank_genes

GeneInit ==
    /\ module_profiles \in ModuleProfileSets(GeneSheets)
    /\ gene_mapping = GeneMapping(DOMAIN module_profiles)
    /\ observed = {}
    /\ excluded = {}
    /\ unknown = {}
    /\ history = <<>>
    /\ cached_modules = <<>>
    /\ cache_valid = FALSE
    /\ rank_calls = 0
    /\ query_observed \in SUBSET EngineIds
    /\ query_excluded = {}
    /\ last = Call("init", <<>>, None)

RankGenesCall(module_id) ==
    /\ last' = Call("rank_genes", <<module_id>>, rank_genes(module_id, query_observed))
    /\ UNCHANGED <<dataVars, sessionVars, queryVars>>

GeneNext == \E module_id \in EngineModuleIds : RankGenesCall(module_id)

GeneSpec == GeneInit /\ [][GeneNext]_vars

\* --------------------------------- direct calls of the prediction engine

\* Sheets of the data sets the prediction engine is called on.
PredictSheets == {SheetA, SheetB}

PredictInit ==
    /\ module_profiles \in ModuleProfileSets(PredictSheets)
    /\ gene_mapping = GeneMapping(DOMAIN module_profiles)
    /\ observed = {}
    /\ excluded = {}
    /\ unknown = {}
    /\ history = <<>>
    /\ cached_modules = <<>>
    /\ cache_valid = FALSE
    /\ rank_calls = 0
    /\ query_observed \in SUBSET EngineIds
    /\ query_excluded \in SUBSET EngineIds
    /\ last = Call("init", <<>>, None)

PredictMissingCall(module_id) ==
    /\ last' = Call("predict_missing_phenotypes", <<module_id>>,
                    predict_missing_phenotypes(module_id, query_observed, query_excluded))
    /\ UNCHANGED <<dataVars, sessionVars, queryVars>>

ExpectedPhenotypesCall(module_id, top_n) ==
    /\ last' = Call("get_expected_phenotypes", <<module_id, top_n>>,
                    get_expected_phenotypes(module_id, top_n))
    /\ UNCHANGED <<dataVars, sessionVars, queryVars>>

ExplainScoringCall(module_id) ==
    /\ last' = Call("explain_scoring", <<module_id>>,
                    explain_scoring(module_id, query_observed, query_excluded))
    /\ UNCHANGED <<dataVars, sessionVars, queryVars>>

\* get_discriminative_questions on the ranking of the query.
DiscriminativeQuestionsCall(top_n) ==
    /\ \E ranked_modules \in {rank_modules(query_observed, query_excluded)} :
          last' = Call("get_discriminative_questions", <<ranked_modules, top_n>>,
                       get_discriminative_questions(ranked_modules, query_observed,
                                                    query_excluded, top_n))
    /\ UNCHANGED <<dataVars, sessionVars, queryVars>>

PredictNext ==
    \/ \E module_id \in EngineModuleIds : ScoreModuleCall(module_id)
    \/ \E module_id \in EngineModuleIds : RankGenesCall(module_id)
    \/ \E module_id \in EngineModuleIds : PredictMissingCall(module_id)
    \/ \E module_id \in EngineModuleIds, top_n \in TopNs :
          ExpectedPhenotypesCall(module_id, top_n)
    \/ \E module_id \in EngineModuleIds : ExplainScoringCall(module_id)
    \/ \E top_n \in TopNs : DiscriminativeQuestionsCall(top_n)

PredictSpec == PredictInit /\ [][PredictNext]_vars

\* ------------------------------------- direct calls of the question selectors

\* Identifiers a caller may pass to the question selectors.
QuestionIds == HpoIds \cup {"HP:3"}

QuestionInit ==
    /\ module_profiles \in ModuleProfileSets(QuestionSheets)
    /\ gene_mapping = GeneMapping(DOMAIN module_profiles)
    /\ observed = {}
    /\ excluded = {}
    /\ unknown = {}
    /\ history = <<>>
    /\ cached_modules = <<>>
    /\ cache_valid = FALSE
    /\ rank_calls = 0
    /\ query_observed \in SUBSET QuestionIds
    /\ query_excluded \in SUBSET QuestionIds
    /\ last = Call("init", <<>>, None)

\* suggest_next_question on the ranking of the query.
SuggestNextQuestionCall ==
    /\ \E ranked_modules \in {rank_modules(query_observed, query_excluded)} :
          last' = Call("suggest_next_question", <<ranked_modules>>,
                       suggest_next_question(ranked_modules, query_observed,
                                             query_excluded))
    /\ UNCHANGED <<dataVars, sessionVars, queryVars>>

QuestionNext ==
    \/ SuggestNextQuestionCall
    \/ \E top_n \in TopNs : DiscriminativeQuestionsCall(top_n)

QuestionSpec == QuestionInit /\ [][QuestionNext]_vars

\* ===================================================================== claims

\* C1: rank_modules returns exactly one ModuleMatch per module id of
\* get_all_module_ids (none missing, none twice, score-0 modules too) and the
\* sequence is ordered by score, non-increasing.
C1_OneMatchPerModuleSorted ==
    last.op = "rank_modules" =>
        LET r == last.ret
            ids == get_all_module_ids
        IN  /\ Len(r) = Len(ids)
            /\ \A i \in 1..Len(ids) :
                   Cardinality({j \in 1..Len(r) : r[j].module_id = ids[i]}) = 1
            /\ \A j \in 1..Len(r) : \A k \in j..Len(r) : r[j].score >= r[k].score

\* C1 witness: two modules ranked against their id order, the last with score 0.
C1_Witness ==
    /\ last.op = "rank_modules"
    /\ Len(last.ret) = 2
    /\ last.ret[1].module_id > last.ret[2].module_id
    /\ last.ret[1].score > 0
    /\ last.ret[2].score = 0

\* C2: the score score_module returns, and the score of every ModuleMatch of
\* rank_modules, is >= 0, for known and unknown module ids, also when the
\* penalties exceed the observed contributions.
C2_ScoreFloor ==
    /\ last.op = "score_module" => last.ret.score >= 0
    /\ last.op = "rank_modules" => \A j \in 1..Len(last.ret) : last.ret[j].score >= 0

\* C2 witness: the signed contributions sum to less than 0 and the score is 0.
C2_Witness ==
    /\ last.op = "score_module"
    /\ query_observed # {}
    /\ SumSeq(Contributions(last.ret.explanations)) < 0
    /\ last.ret.score = 0

\* C3: with the observed set fixed, the score of a module under an excluded
\* set is at most its score under any subset of that excluded set.
C3_ExclusionMonotone ==
    last.op = "score_module" =>
        \A E1 \in SUBSET query_excluded :
            last.ret.score <= score_module(last.args[1], query_observed, E1).score

\* C3 witness: an exclusion strictly lowers a score that stays positive.
C3_Witness ==
    /\ last.op = "score_module"
    /\ last.ret.score > 0
    /\ \E E1 \in SUBSET query_excluded :
          last.ret.score < score_module(last.args[1], query_observed, E1).score

\* The ranks of a ranking whose score is positive.
PositiveRanks(r) == {j \in 1..Len(r) : r[j].score > 0}

\* C4: when exactly one module has a positive score, it is ranked first with
\* confidence exactly 1 and every other module has confidence 0.
C4_UniquePositiveConfidence ==
    (last.op = "rank_modules" /\ Cardinality(PositiveRanks(last.ret)) = 1) =>
        /\ PositiveRanks(last.ret) = {1}
        /\ last.ret[1].confidence = FracOne
        /\ \A j \in 2..Len(last.ret) : last.ret[j].confidence = FracZero

\* C4 witness: several modules, exactly one with a positive score.
C4_Witness ==
    /\ last.op = "rank_modules"
    /\ Len(last.ret) >= 2
    /\ Cardinality(PositiveRanks(last.ret)) = 1

\* x = n/d for a fraction x and integers n, d with d > 0.
FracIs(x, n, d) == x.den > 0 /\ x.num * d = n * x.den

\* C5: with at least 2 modules and a positive top score,
\* confidence[0] = clamp((score[0]-score[1])/score[0], 0, 1) and, for i >= 1,
\* confidence[i] = (score[i]/score[0]) * (1 - confidence[0]); every confidence
\* of a ranking lies in [0,1].
C5_ConfidenceFormula ==
    last.op = "rank_modules" =>
        LET r == last.ret
        IN  /\ (Len(r) >= 2 /\ r[1].score > 0) =>
                LET s0 == r[1].score
                    sep == r[1].score - r[2].score
                    c0 == r[1].confidence
                IN  /\ IF sep < 0 THEN FracIs(c0, 0, 1)
                       ELSE IF sep > s0 THEN FracIs(c0, 1, 1)
                       ELSE FracIs(c0, sep, s0)
                    /\ \A i \in 2..Len(r) :
                           FracIs(r[i].confidence,
                                  r[i].score * (c0.den - c0.num), s0 * c0.den)
            /\ \A j \in 1..Len(r) :
                   /\ r[j].confidence.den > 0
                   /\ 0 <= r[j].confidence.num
                   /\ r[j].confidence.num <= r[j].confidence.den

\* C5 witness: the runner-up has a positive score below the top score.
C5_Witness ==
    /\ last.op = "rank_modules"
    /\ Len(last.ret) >= 2
    /\ last.ret[1].score > last.ret[2].score
    /\ last.ret[2].score > 0

\* C6: with an empty observed set, whatever the excluded set, every module
\* has score 0 and confidence 0 and rank_modules returns the full ranking,
\* its best module present with score 0.
C6_NoSignal ==
    /\ (last.op = "rank_modules" /\ query_observed = {}) =>
          /\ Len(last.ret) = Cardinality(DOMAIN module_profiles)
          /\ last.ret # <<>>
          /\ last.ret[1].score = 0
          /\ \A j \in 1..Len(last.ret) :
                 last.ret[j].score = 0 /\ last.ret[j].confidence = FracZero
    /\ (last.op = "score_module" /\ query_observed = {}) => last.ret.score = 0

\* C6 witness: nothing observed, and an excluded phenotype penalised.
C6_Witness ==
    /\ last.op = "rank_modules"
    /\ query_observed = {}
    /\ \E j \in 1..Len(last.ret) : last.ret[j].penalized_phenotypes # <<>>

\* C7: observed, excluded and unknown are pairwise disjoint in every state
\* of a session.
C7_SetsDisjoint ==
    /\ observed \cap excluded = {}
    /\ observed \cap unknown = {}
    /\ excluded \cap unknown = {}

\* C7 witness: an identifier answered twice, with two different responses.
C7_Witness ==
    /\ Len(history) = 2
    /\ history[1][2] = history[2][2]
    /\ history[1][3] # history[2][3]

\* The set of the session that a response files an identifier in.
SetOf(response) ==
    IF response = "yes" THEN observed
    ELSE IF response = "no" THEN excluded
    ELSE unknown

\* C8: right after answer(identifier, response) the resolved identifier (the
\* identifier itself when it does not resolve) is in the set of the response
\* and in neither other set, whatever it was classified as before.
C8_AnswerPostcondition ==
    last.op = "answer" =>
        LET resolved == resolve_phenotype(last.args[1])
            hpo_id == IF resolved = None THEN last.args[1] ELSE resolved[1]
        IN  /\ hpo_id \in SetOf(last.args[2])
            /\ \A other \in Responses \ {last.args[2]} : hpo_id \notin SetOf(other)

\* C8 witness: a name answered after its hpo_id was answered differently.
C8_Witness ==
    /\ last.op = "answer"
    /\ Len(history) = 2
    /\ last.args[1] # history[2][2]
    /\ history[1][2] = history[2][2]
    /\ history[1][3] # history[2][3]

\* C9: an answer call appends exactly one (name, hpo_id, response) record to
\* the history and leaves the earlier records as they were; a getter leaves
\* the history as it was.
C9_HistoryAppendOnly ==
    [][ /\ last'.op = "answer" =>
            /\ Len(history') = Len(history) + 1
            /\ SubSeq(history', 1, Len(history)) = history
            /\ history'[Len(history')] =
                 << IF last'.args[3] # None THEN last'.args[3][1] ELSE last'.args[1],
                    IF resolve_phenotype(last'.args[1]) = None THEN last'.args[1]
                    ELSE resolve_phenotype(last'.args[1])[1],
                    last'.args[2] >>
        /\ last'.op \notin {"answer", "reset"} => history' = history ]_vars

\* C9 witness: the same identifier answered twice, both answers recorded.
C9_Witness ==
    /\ last.op = "answer"
    /\ Len(history) = 2
    /\ history[1][2] = history[2][2]

\* The ranking a session without answers returns.
FreshRanking == rank_modules({}, {})

\* C10: after reset() the three sets and the history are empty and the cache
\* is stale, and as long as nothing is answered every getter returns what it
\* returns on a new session over the same reference data.
C10_ResetToInitial ==
    /\ last.op = "reset" =>
          /\ observed = {} /\ excluded = {} /\ unknown = {}
          /\ history = <<>>
          /\ ~cache_valid
    /\ history = <<>> =>
          /\ UpdatedCache = FreshRanking
          /\ BestModuleOf(UpdatedCache) = BestModuleOf(FreshRanking)
          /\ \A top_n \in TopNs :
                 CandidateGenesOf(UpdatedCache, observed, top_n)
                     = CandidateGenesOf(FreshRanking, {}, top_n)
          /\ NextQuestionOf(UpdatedCache, observed, excluded, unknown)
                 = NextQuestionOf(FreshRanking, {}, {}, {})

\* C10 witness: reset() called while the cache holds the ranking of answers
\* given before it.
C10_Witness ==
    /\ last.op = "reset"
    /\ cached_modules # <<>>
    /\ cached_modules # FreshRanking

\* The operations of a session that read the cached ranking.
GetterOps == {"get_ranked_modules", "get_best_module", "get_candidate_genes",
              "get_next_question"}

\* C11: between two mutations of a session (answer, reset, construction) the
\* getters call rank_modules at most once in total: no call before the first
\* getter, exactly one once a getter has run, however many getters follow.
C11_RankOncePerPeriod ==
    /\ rank_calls <= 1
    /\ last.op \in GetterOps => rank_calls = 1
    /\ last.op \in {"init", "answer", "reset"} => rank_calls = 0
    /\ cache_valid <=> rank_calls = 1

\* C11 witness: a getter has run after two answers and the ranking it
\* computed is held in the cache.
C11_Witness ==
    /\ last.op = "get_candidate_genes"
    /\ Len(history) = 2
    /\ rank_calls = 1
    /\ cached_modules = rank_modules(observed, excluded)
    /\ cached_modules[1].score > 0

\* C12: whenever the cache is marked valid it holds rank_modules of the
\* current observed and excluded sets, and what a getter returned is what the
\* stateless engines give on the current sets.
C12_CacheFresh ==
    LET fresh == rank_modules(observed, excluded)
    IN  /\ cache_valid => cached_modules = fresh
        /\ last.op = "get_ranked_modules" => last.ret = fresh
        /\ last.op = "get_best_module" => last.ret = BestModuleOf(fresh)
        /\ last.op = "get_candidate_genes" =>
               last.ret = CandidateGenesOf(fresh, observed, last.args[1])
        /\ last.op = "get_next_question" =>
               last.ret = NextQuestionOf(fresh, observed, excluded, unknown)

\* C12 witness: a ranking returned after answers on two phenotypes, different
\* from the ranking of a session without answers.
C12_Witness ==
    /\ last.op = "get_ranked_modules"
    /\ Len(history) = 2
    /\ history[1][2] # history[2][2]
    /\ last.ret # FreshRanking

\* C13: the phenotype get_next_question returns, when it returns one, has an
\* hpo_id that is in none of observed, excluded and unknown.
C13_NoReAsking ==
    (last.op = "get_next_question" /\ last.ret # None) =>
        last.ret[1].hpo_id \notin (observed \cup excluded \cup unknown)

\* C13 witness: a question is returned while a phenotype of the best module
\* is filed as unknown.
C13_Witness ==
    /\ last.op = "get_next_question"
    /\ last.ret # None
    /\ \E i \in 1..Len(module_profiles[cached_modules[1].module_id].phenotypes) :
          module_profiles[cached_modules[1].module_id].phenotypes[i].hpo_id \in unknown

\* C14: answering UNKNOWN for an identifier that is filed neither as observed
\* nor as excluded leaves the ranking of the session's sets as it was: same
\* order, scores and confidences.
C14_UnknownNotScored ==
    [][ (/\ last'.op = "answer"
         /\ last'.args[2] = "unknown"
         /\ ResolvedId(last'.args[1]) \notin (observed \cup excluded))
        => /\ observed' = observed
           /\ excluded' = excluded
           /\ rank_modules(observed', excluded') = rank_modules(observed, excluded) ]_vars

\* C14 witness: UNKNOWN answered for a second phenotype while the first,
\* answered YES, gives the best module a positive score.
C14_Witness ==
    /\ last.op = "answer"
    /\ last.args[2] = "unknown"
    /\ Len(history) = 2
    /\ history[1][3] = "yes"
    /\ history[1][2] # history[2][2]
    /\ history[2][2] \in phenotype_to_modules_keys
    /\ rank_modules(observed, excluded)[1].score > 0

\* The score of the best module of a ranking.
BestScore(r) == r[1].score

\* C15: answer(identifier, YES) lowers no module's score, so the best score
\* never decreases on it; with nothing observed the best score is 0, and a
\* YES on an empty session for a phenotype with a positive contribution in
\* some module makes it > 0.
C15_YesMonotone ==
    [][ (last'.op = "answer" /\ last'.args[2] = "yes") =>
            \A before \in {rank_modules(observed, excluded)} :
            \A after \in {rank_modules(observed', excluded')} :
                /\ \A i \in 1..Len(before) : \A j \in 1..Len(after) :
                       after[j].module_id = before[i].module_id
                           => after[j].score >= before[i].score
                /\ BestScore(after) >= BestScore(before)
                /\ observed = {} => BestScore(before) = 0
                /\ ( /\ observed = {}
                     /\ excluded = {}
                     /\ \E m \in DOMAIN module_profiles :
                           LET pheno == PhenoGet(module_profiles[m].phenotypes,
                                                 ResolvedId(last'.args[1]))
                           IN  pheno # None /\ score_phenotype(pheno[1]) > 0 )
                    => BestScore(after) > 0 ]_vars

\* C15 witness: a phenotype answered NO and then YES, the best score positive.
C15_Witness ==
    /\ last.op = "answer"
    /\ last.args[2] = "yes"
    /\ Len(history) = 2
    /\ history[1][3] = "no"
    /\ history[1][2] = history[2][2]
    /\ BestScore(rank_modules(observed, excluded)) > 0

\* C16: with an empty observed set every GeneCandidate of rank_genes has no
\* supporting phenotype and a support_score equal to its classification
\* bonus (+stability_bonus core, 0 peripheral, -stability_bonus/2 unstable),
\* so core genes come before peripheral genes and those before unstable ones.
C16_EmptyObservedGenes ==
    (last.op = "rank_genes" /\ query_observed = {}) =>
        LET r == last.ret
            tier(c) == IF c.classification = "core" THEN 1
                       ELSE IF c.classification = "peripheral" THEN 2 ELSE 3
        IN  /\ \A i \in 1..Len(r) :
                   /\ r[i].supporting_phenotypes = <<>>
                   /\ r[i].classification \in {"core", "peripheral", "unstable"}
                   /\ r[i].classification = "core" => r[i].support_score = stability_bonus
                   /\ r[i].classification = "peripheral" => r[i].support_score = 0
                   /\ r[i].classification = "unstable"
                          => 2 * r[i].support_score = -stability_bonus
            /\ \A i \in 1..Len(r) : \A j \in i..Len(r) : tier(r[i]) <= tier(r[j])

\* C16 witness: nothing observed, and genes of all three classifications are
\* returned for a module whose sheet lists a gene of another module.
C16_Witness ==
    /\ last.op = "rank_genes"
    /\ query_observed = {}
    /\ {last.ret[i].classification : i \in 1..Len(last.ret)}
           = {"core", "peripheral", "unstable"}
    /\ \E g \in module_profiles[last.args[1]].all_genes :
           g \in DOMAIN gene_mapping /\ gene_mapping[g].module_id # last.args[1]

\* The genes of a rank_genes result, as a set.
GenesOf(r) == {r[i].gene : i \in 1..Len(r)}

\* C17: for a known module and any observed set, rank_genes returns each
\* gene of the module's gene set exactly once and no other gene, so the
\* result is as long as the gene set is large.
C17_GeneCoverage ==
    (last.op = "rank_genes" /\ last.args[1] \in DOMAIN module_profiles) =>
        /\ GenesOf(last.ret) = get_module_genes(last.args[1])
        /\ Len(last.ret) = Cardinality(get_module_genes(last.args[1]))

\* C18: get_discriminative_questions returns the empty list whenever fewer
\* than two modules are ranked or the second-ranked module's score is <= 0,
\* whatever the observed and excluded sets and the top module's phenotypes.
C18_NoQuestionsWithoutRunnerUp ==
    last.op = "get_discriminative_questions" =>
        ((Len(last.args[1]) < 2 \/ last.args[1][2].score <= 0) => last.ret = <<>>)

\* C18 witness: the second-ranked module scores 0 while the top module
\* scores more and the loop over its phenotypes would list a candidate.
C18_Witness ==
    /\ last.op = "get_discriminative_questions"
    /\ Len(last.args[1]) >= 2
    /\ last.args[1][1].score > 0
    /\ last.args[1][2].score = 0
    /\ DiscriminativeCandidates(
           module_profiles[last.args[1][1].module_id].phenotypes,
           module_profiles[last.args[1][2].module_id].phenotypes,
           query_observed \cup query_excluded,
           last.args[1][1].module_id, last.args[1][2].module_id) # <<>>

\* The engine operations that take a module id as their first argument.
ModuleOps == {"score_module", "rank_genes", "predict_missing_phenotypes",
              "get_expected_phenotypes", "explain_scoring"}

\* C19: for a module id without profile score_module returns score 0 and no
\* explanation item, and rank_genes, predict_missing_phenotypes,
\* get_expected_phenotypes and explain_scoring return the empty list.
C19_UnknownModuleTotal ==
    (last.op \in ModuleOps /\ last.args[1] \notin DOMAIN module_profiles) =>
        IF last.op = "score_module"
        THEN last.ret.score = 0 /\ last.ret.explanations = <<>>
        ELSE last.ret = <<>>

\* C19 witness: explain_scoring called for a module id without profile, with
\* observed and excluded phenotypes that the known modules do have.
C19_Witness ==
    /\ last.op = "explain_scoring"
    /\ last.args[1] \notin DOMAIN module_profiles
    /\ query_observed \cap phenotype_to_modules_keys # {}
    /\ query_excluded \cap phenotype_to_modules_keys # {}

\* C20 as stated: every identifier resolve_phenotype returns, and every key
\* of a module's phenotype map, resolves to itself.
C20_RoundTrip ==
    last.op = "resolve_phenotype" =>
        /\ last.ret # None => resolve_phenotype(last.ret[1]) = last.ret
        /\ last.args[1] \in phenotype_to_modules_keys => last.ret = Some(last.args[1])

\* C20, amended: every identifier resolve_phenotype returns, and every key of
\* a module's phenotype map, that starts with "HP:" resolves to itself, and
\* answer files it under that same identifier.
C20_RoundTripHpoIds ==
    /\ last.op = "resolve_phenotype" =>
           /\ (last.ret # None /\ StartsWithHP(last.ret[1])) =>
                  /\ resolve_phenotype(last.ret[1]) = last.ret
                  /\ last.ret[1] \in phenotype_to_modules_keys
           /\ (last.args[1] \in phenotype_to_modules_keys /\ StartsWithHP(last.args[1])) =>
                  last.ret = Some(last.args[1])
    /\ \A h \in phenotype_to_modules_keys :
           StartsWithHP(h) => resolve_phenotype(h) = Some(h) /\ ResolvedId(h) = h

\* C20 witness: a name in another spelling resolved to an HPO id.
C20_Witness ==
    /\ last.op = "resolve_phenotype"
    /\ ~StartsWithHP(last.args[1])
    /\ last.ret # None
    /\ StartsWithHP(last.ret[1])
    /\ Lower(last.args[1]) # last.args[1]

\* The sum of score_phenotype over the rows of a phenotype map whose hpo_id
\* is in ids and, when positive_only, whose prevalence is > 0.
RECURSIVE SumScores(_, _, _)
SumScores(phenotypes, ids, positive_only) ==
    IF phenotypes = <<>> THEN 0
    ELSE (IF /\ Head(phenotypes).hpo_id \in ids
             /\ (positive_only => Head(phenotypes).prevalence > 0)
          THEN score_phenotype(Head(phenotypes)) ELSE 0)
         + SumScores(Tail(phenotypes), ids, positive_only)

\* The identifiers of ids that a module's phenotype map has, with
\* prevalence > 0 when positive_only.
Effective(module_id, ids, positive_only) ==
    {h \in ids : \E i \in 1..Len(module_profiles[module_id].phenotypes) :
        /\ module_profiles[module_id].phenotypes[i].hpo_id = h
        /\ (positive_only => module_profiles[module_id].phenotypes[i].prevalence > 0)}

\* C21: for a known module score_module is max(0, S_obs - exclusion_penalty *
\* S_exc), S_obs over the observed identifiers in the module's map and S_exc
\* over the excluded ones in the map with prevalence > 0; the other
\* identifiers change neither the score nor the explanation items.
C21_ScoreFormula ==
    (last.op = "score_module" /\ last.args[1] \in DOMAIN module_profiles) =>
        LET phenotypes == module_profiles[last.args[1]].phenotypes
            S_obs == SumScores(phenotypes, query_observed, FALSE)
            S_exc == SumScores(phenotypes, query_excluded, TRUE)
            reduced == score_module(last.args[1],
                                    Effective(last.args[1], query_observed, FALSE),
                                    Effective(last.args[1], query_excluded, TRUE))
        IN  /\ last.ret.score * ExclusionPenaltyDen
                  = Max(0, S_obs * ExclusionPenaltyDen - ExclusionPenaltyNum * S_exc)
            /\ last.ret.score = reduced.score
            /\ Range(last.ret.explanations) = Range(reduced.explanations)
            /\ Len(last.ret.explanations) = Len(reduced.explanations)
            /\ Len(last.ret.explanations)
                  = Cardinality(Effective(last.args[1], query_observed, FALSE))
                    + Cardinality(Effective(last.args[1], query_excluded, TRUE))

\* C21 witness: a positive score with an observed identifier the module does
\* not have and an excluded phenotype of the module with prevalence 0.
C21_Witness ==
    /\ last.op = "score_module"
    /\ last.args[1] \in DOMAIN module_profiles
    /\ last.ret.score > 0
    /\ Effective(last.args[1], query_observed, FALSE) # query_observed
    /\ Effective(last.args[1], query_excluded, FALSE)
          # Effective(last.args[1], query_excluded, TRUE)
    /\ Effective(last.args[1], query_excluded, TRUE) # {}

\* The hpo_ids of a list of PhenotypeInfo.
IdsOf(infos) == {infos[i].hpo_id : i \in 1..Len(infos)}

\* The hpo_ids of the explanation items of a module whose contribution
\* satisfies Test.
ItemIds(module_id, Test(_)) ==
    LET explanations == score_module(module_id, query_observed, query_excluded).explanations
    IN  {explanations[i].hpo_id : i \in {j \in 1..Len(explanations) :
                                            Test(explanations[j].contribution)}}

\* C22: in every ModuleMatch of rank_modules contributing_phenotypes lists
\* exactly the phenotypes with a positive contribution to the module's score
\* and penalized_phenotypes exactly those with a negative one; an observed
\* phenotype that is not excluded is never listed as penalized.
C22_ContributionLists ==
    last.op = "rank_modules" =>
        \A j \in 1..Len(last.ret) :
            /\ IdsOf(last.ret[j].contributing_phenotypes)
                   = ItemIds(last.ret[j].module_id, LAMBDA c : c > 0)
            /\ IdsOf(last.ret[j].penalized_phenotypes)
                   = ItemIds(last.ret[j].module_id, LAMBDA c : c < 0)
            /\ IdsOf(last.ret[j].penalized_phenotypes) \cap (query_observed \ query_excluded)
                   = {}

\* C23: modules of equal score appear in ascending module-id order, and when
\* every score is 0 the top two modules are the two smallest module ids.
C23_TieOrder ==
    last.op = "rank_modules" =>
        LET r == last.ret
        IN  /\ \A j \in 1..Len(r) : \A k \in (j + 1)..Len(r) :
                   r[j].score = r[k].score => r[j].module_id < r[k].module_id
            /\ (Len(r) >= 2 /\ \A j \in 1..Len(r) : r[j].score = 0) =>
                   /\ r[1].module_id = get_all_module_ids[1]
                   /\ r[2].module_id = get_all_module_ids[2]

\* C23 witness: two modules tie on a positive score.
C23_Witness ==
    /\ last.op = "rank_modules"
    /\ Len(last.ret) >= 2
    /\ last.ret[1].score > 0
    /\ last.ret[1].score = last.ret[2].score


\* The phenotype map of the top-ranked module of a ranking.
TopPhenotypes(ranked) == module_profiles[ranked[1].module_id].phenotypes

\* The prevalence of hpo_id in a module, 0 when the module has no row for it.
PrevalenceIn(module_id, hpo_id) ==
    LET phenotypes == module_profiles[module_id].phenotypes
        rows == {i \in 1..Len(phenotypes) : phenotypes[i].hpo_id = hpo_id}
    IN  IF rows = {} THEN 0 ELSE phenotypes[CHOOSE i \in rows : TRUE].prevalence

\* Twice the average prevalence of row i of the top module in the top two modules.
AvgTwice(ranked, i) ==
    TopPhenotypes(ranked)[i].prevalence
        + PrevalenceIn(ranked[2].module_id, TopPhenotypes(ranked)[i].hpo_id)

\* The weighted score |top - second| * avg / 100 of row i, times 200.
WeightedOf(ranked, i) ==
    Abs(TopPhenotypes(ranked)[i].prevalence
            - PrevalenceIn(ranked[2].module_id, TopPhenotypes(ranked)[i].hpo_id))
        * AvgTwice(ranked, i)

\* The rows of the top module that are unasked and clear the rarity floor.
EligibleRows(ranked) ==
    {i \in 1..Len(TopPhenotypes(ranked)) :
        /\ TopPhenotypes(ranked)[i].hpo_id \notin query_observed \cup query_excluded
        /\ AvgTwice(ranked, i) >= 2 * 10}

\* C24: with fewer than two ranked modules suggest_next_question returns
\* nothing; otherwise the phenotype it returns is a row of the top-ranked
\* module that is in neither observed nor excluded, has an average prevalence
\* of at least 10 (a phenotype absent from the second module counting 0), and
\* has a weighted score at least that of every other such row and strictly
\* greater than that of every such row before it in the phenotype map.
C24_BestDiscriminator ==
    last.op = "suggest_next_question" =>
        LET ranked == last.args[1]
        IN  IF Len(ranked) < 2 THEN last.ret = None
            ELSE last.ret # None =>
                   \E i \in EligibleRows(ranked) :
                      /\ last.ret[1].hpo_id = TopPhenotypes(ranked)[i].hpo_id
                      /\ last.ret[1].name = TopPhenotypes(ranked)[i].name
                      /\ last.ret[1].prevalence = TopPhenotypes(ranked)[i].prevalence
                      /\ \A j \in EligibleRows(ranked) :
                            /\ WeightedOf(ranked, j) <= WeightedOf(ranked, i)
                            /\ j < i => WeightedOf(ranked, j) < WeightedOf(ranked, i)

\* Two eligible rows tie on the greatest weighted score and the earlier one
\* is returned.
C24_Witness ==
    /\ last.op = "suggest_next_question"
    /\ Len(last.args[1]) >= 2
    /\ last.ret # None
    /\ \E i, j \in EligibleRows(last.args[1]) :
          /\ i < j
          /\ WeightedOf(last.args[1], i) = WeightedOf(last.args[1], j)
          /\ last.ret[1].hpo_id = TopPhenotypes(last.args[1])[i].hpo_id

\* C25: given two ranked modules, suggest_next_question returns a phenotype
\* if and only if some unasked row of the top module clears the rarity floor
\* with a weighted score greater than 0; rows that clear the floor with a
\* weighted score of 0 are never returned.
C25_ReturnsIffPositive ==
    (last.op = "suggest_next_question" /\ Len(last.args[1]) >= 2) =>
        /\ last.ret # None <=>
              \E i \in EligibleRows(last.args[1]) : WeightedOf(last.args[1], i) > 0
        /\ \A i \in EligibleRows(last.args[1]) :
              (last.ret # None /\ last.ret[1].hpo_id = TopPhenotypes(last.args[1])[i].hpo_id)
                  => WeightedOf(last.args[1], i) > 0

\* Nothing is returned although a row clears the rarity floor.
C25_Witness ==
    /\ last.op = "suggest_next_question"
    /\ Len(last.args[1]) >= 2
    /\ last.ret = None
    /\ EligibleRows(last.args[1]) # {}

\* C27: for the same ranking and query, when the second-ranked module's score
\* is positive and suggest_next_question returns a phenotype,
\* get_discriminative_questions with top_n >= 1 returns a non-empty list
\* that starts with the same identifier; when suggest_next_question returns
\* nothing, every element of get_discriminative_questions has weighted score 0.
C27_SelectorsAgree ==
    last.op = "suggest_next_question" =>
        \A top_n \in TopNs :
          \A questions \in {get_discriminative_questions(last.args[1], query_observed,
                                                         query_excluded, top_n)} :
            /\ (/\ Len(last.args[1]) >= 2
                /\ last.args[1][2].score > 0
                /\ last.ret # None)
                  => /\ questions # <<>>
                     /\ questions[1].hpo_id = last.ret[1].hpo_id
            /\ last.ret = None =>
                  \A k \in 1..Len(questions) :
                     \A i \in 1..Len(TopPhenotypes(last.args[1])) :
                        TopPhenotypes(last.args[1])[i].hpo_id = questions[k].hpo_id
                            => WeightedOf(last.args[1], i) = 0

\* The second module scores above 0 and the phenotype returned is not the
\* first eligible row of the top module.
C27_Witness ==
    /\ last.op = "suggest_next_question"
    /\ Len(last.args[1]) >= 2
    /\ last.args[1][2].score > 0
    /\ last.ret # None
    /\ \E i, j \in EligibleRows(last.args[1]) :
          /\ j < i
          /\ last.ret[1].hpo_id = TopPhenotypes(last.args[1])[i].hpo_id


\* The top-ranked module's confidence is at least that of every other module.
TopConfidenceIsGreatest(results) ==
    \A i \in 2..Len(results) : FracLe(results[i].confidence, results[1].confidence)

LastResponse(hpo_id) ==
    LET records == {k \in 1..Len(history) : history[k][2] = hpo_id}
    IN  IF records = {} THEN None
        ELSE Some(history[CHOOSE k \in records : \A j \in records : j <= k][3])

\* C29: the membership of every identifier in observed, excluded and unknown
\* is given by the last response answered for it since the last reset, whatever
\* was answered for other identifiers and in whatever order: an answer changes
\* the membership of its resolved identifier only, and answers to distinct
\* identifiers commute on the three sets.
C29_SetsFromLastResponses ==
    \A hpo_id \in observed \cup excluded \cup unknown
                    \cup {history[k][2] : k \in 1..Len(history)} :
        /\ hpo_id \in observed <=> LastResponse(hpo_id) = Some("yes")
        /\ hpo_id \in excluded <=> LastResponse(hpo_id) = Some("no")
        /\ hpo_id \in unknown <=> LastResponse(hpo_id) = Some("unknown")

\* Two distinct identifiers answered, NO first and YES second.
C29_Witness ==
    /\ last.op = "answer"
    /\ Len(history) = 2
    /\ history[1][2] # history[2][2]
    /\ history[1][3] = "no"
    /\ history[2][3] = "yes"
    /\ excluded = {history[1][2]}
    /\ observed = {history[2][2]}


C30_PredictedUnanswered ==
    last.op = "get_predicted_phenotypes" =>
        \A k \in 1..Len(last.ret) :
            last.ret[k].hpo_id \notin (observed \cup excluded \cup unknown)

\* C30 (amended): no phenotype returned by get_predicted_phenotypes has an
\* identifier that is in observed or excluded; an identifier answered UNKNOWN
\* can be returned.
C30_PredictedNotObservedOrExcluded ==
    last.op = "get_predicted_phenotypes" =>
        \A k \in 1..Len(last.ret) :
            last.ret[k].hpo_id \notin (observed \cup excluded)

\* A prediction is returned for an identifier answered UNKNOWN while another
\* identifier is observed.
C30_Witness ==
    /\ last.op = "get_predicted_phenotypes"
    /\ observed # {}
    /\ \E k \in 1..Len(last.ret) : last.ret[k].hpo_id \in unknown

====
